---- MODULE Spec2Model ----
(***************************************************************************)
(* Dispatch-and-worker conversation engine of the Telegram music bot.      *)
(*                                                                         *)
(*   core.py    main(): the Dispatcher loop (get_updates, routing,         *)
(*              chat_workers registry, /start replacement).                *)
(*   worker.py  Worker(threading.Thread): mailbox, start-up, the           *)
(*              conversation state machine, graceful stop.                 *)
(*                                                                         *)
(* A worker thread is modelled between two blocking points: one action is  *)
(* everything the thread does from one queue.get() to the next.  The       *)
(* Python call stack of a waiting worker is kept as the sequence of the    *)
(* suspended __user_menu loops with, for each, the phase of the call it    *)
(* made (which decides where an exception is caught).                      *)
(***************************************************************************)
EXTENDS Integers, Sequences, FiniteSets, TLC

VARIABLES
    corePc,        \* position of main(): "poll" | "loop" | "join" | "crashed"
    updates,       \* number of updates of the current batch already parsed
    cur,           \* the update main() is blocked on (join) or was ended by
    next_update,   \* core.py next_update (None until the first batch)
    chat_workers,  \* core.py chat_workers: chat id -> worker (NoWorker if absent)
    workers,       \* every Worker object ever constructed, by creation number
    db,            \* committed rows of the users and admins tables
    coreCalls,     \* BotAPI calls made by main() in its latest step
    pure           \* a function of worker.py applied on its own: input and result

vars == <<corePc, updates, cur, next_update, chat_workers, workers, db, coreCalls, pure>>

----------------------------------------------------------------------------
(* Bounds of the model *)

MaxChats == 2
MaxUpdates == 3
MaxConvUpdates == 4
MaxLiveUpdates == 4
MaxLinkUpdates == 5
MaxPage == 3
MaxItems == 46
MaxFormats == 3
MaxThumbnails == 2

(* Program constants *)

MAX_RETRIES == 3
ITEMS_PER_PAGE == 15

NoWorker == 0
None == -1

Chats == 1..MaxChats

Min(a, b) == IF a < b THEN a ELSE b
Max(a, b) == IF a > b THEN a ELSE b

----------------------------------------------------------------------------
(* Queue items and updates *)

StopSignal(reason) == [kind |-> "StopSignal", content |-> reason]
CancelSignal == [kind |-> "CancelSignal", content |-> ""]
Item(u) == [kind |-> u.kind, content |-> u.content]

\* menu_cancel of strings/en.py, which is also the label of cancel_keyboard
menu_cancel == "menu_cancel"
menu_user_mode == "menu_user_mode"

Message(c, t) == [kind |-> "message", chat |-> c, chat_type |-> "private", content |-> t]
GroupMessage(c, t) == [kind |-> "message", chat |-> c, chat_type |-> "group", content |-> t]
Callback(c, d) == [kind |-> "callback_query", chat |-> c, chat_type |-> "private", content |-> d]
PreCheckout(c, p) == [kind |-> "pre_checkout_query", chat |-> c, chat_type |-> "private", content |-> p]

----------------------------------------------------------------------------
(* What youtube_dl.extract_info can give for a submitted link.             *)
(*   type    "raise" | "single" (no _type) | "playlist" | "url" | "other"   *)
(*   hop     what the redirect target resolves to (type = "url" only)      *)
(*   entries the playlist's entries (their urls)                           *)
(*   bad     index of the entry whose resolution raises (0: none)          *)
(*   item    the resolved item: has a best thumbnail, number of format     *)
(*           urls offered                                                  *)

MediaItem(thumb, nfmt) == [thumb |-> thumb, nfmt |-> nfmt]

Range(n) == [k \in 1..n |-> k]

Resolved(type, hop, entries, bad, item) ==
    [type |-> type, hop |-> hop, entries |-> entries, bad |-> bad, item |-> item]

ResolverOutcomes ==
    {Resolved("raise", "", <<>>, 0, MediaItem(FALSE, 0)),
     Resolved("other", "", <<>>, 0, MediaItem(FALSE, 0)),
     Resolved("single", "", <<>>, 0, MediaItem(TRUE, 1)),
     Resolved("single", "", <<>>, 0, MediaItem(FALSE, 1)),
     Resolved("playlist", "", Range(1), 0, MediaItem(TRUE, 1)),
     Resolved("playlist", "", Range(ITEMS_PER_PAGE + 1), 0, MediaItem(TRUE, 1)),
     Resolved("playlist", "", Range(2), 2, MediaItem(TRUE, 1)),
     Resolved("playlist", "", <<1, 1>>, 0, MediaItem(TRUE, 1)),
     Resolved("url", "single", <<>>, 0, MediaItem(TRUE, 1)),
     Resolved("url", "playlist", Range(1), 0, MediaItem(TRUE, 1)),
     Resolved("url", "url", <<>>, 0, MediaItem(TRUE, 1)),
     Resolved("url", "raise", <<>>, 0, MediaItem(TRUE, 1))}

NoOutcome == Resolved("raise", "", <<>>, 0, MediaItem(FALSE, 0))

----------------------------------------------------------------------------
(* A Worker object.                                                        *)

Frame(del, call) == [del |-> del, call |-> call]

\* Worker.__init__: no loc and no invoice_payload attribute is created.
NewWorker(c) ==
    [chat |-> c,
     thread |-> "alive",            \* threading.Thread state after start()
     exit |-> "",                   \* why the thread ended
     loc |-> "absent",              \* attribute loc: "absent" | "None" | "set"
     invoice_payload |-> "absent",  \* attribute invoice_payload: "absent" | a payload
     session |-> "open",
     user |-> FALSE,                \* self.user is not None
     admin |-> FALSE,               \* self.admin is not None
     new_user |-> FALSE,
     will_be_owner |-> FALSE,
     queue |-> <<>>,
     data |-> CancelSignal,         \* the item the latest queue.get() returned
     pc |-> "lookup",
     stack |-> <<>>,                \* suspended __user_menu loops, outermost first
     i |-> 0,                       \* _get_link attempt
     msg_link |-> 0,                \* times the link prompt was deleted
     page |-> 0,
     items |-> <<>>,                \* data_list of __show_many
     origin |-> FALSE,              \* __show_one was given a data_list
     via_url |-> FALSE,             \* the playlist was reached through _handle_url
     item |-> MediaItem(FALSE, 0),
     calls |-> <<>>]                \* BotAPI calls of the thread's latest step

Unborn ==
    [NewWorker(0) EXCEPT !.thread = "unborn", !.pc = "none"]

WaitPoints == {"menu", "admin", "link", "one", "many"}

Waiting(wr) == wr.thread = "alive" /\ wr.pc \in WaitPoints

----------------------------------------------------------------------------
(* BotAPI calls are recorded as [op, what, k]:                             *)
(* op the bot method, what the localized string or the message concerned,  *)
(* k a number shown in the text (0 if none).                               *)

Api(op, what) == [op |-> op, what |-> what, k |-> 0]
ApiK(op, what, k) == [op |-> op, what |-> what, k |-> k]

Call(wr, c) == [wr EXCEPT !.calls = Append(@, c)]

\* Python's s[a:b]
PySlice(s, a, b) ==
    LET n == Len(s)
        lo == IF a < 0 THEN Max(a + n, 0) ELSE Min(a, n)
        hi == IF b < 0 THEN Max(b + n, 0) ELSE Min(b, n)
    IN IF lo < hi THEN SubSeq(s, lo + 1, hi) ELSE <<>>

\* Python's list.index(e), 0-based
ListIndex(s, e) ==
    (CHOOSE j \in 1..Len(s) : s[j] = e /\ \A m \in 1..(j - 1) : s[m] # e) - 1

\* re.search("(?P<url>https?://[^\s]+)", link) finds a url and "soundcloud" is in it
soundcloud_url == "https://soundcloud.com/a"
other_url == "https://example.com/a"
IsServiceLink(text) == text = soundcloud_url

\* int(select.data.split("_")[1]) of __show_many: the index, or -1 when int() raises
ButtonIndex(d) ==
    CASE d = "button_0" -> 0
      [] d = "button_1" -> 1
      [] d = "button_14" -> 14
      [] OTHER -> -1

\* int(select.data[len("download_format:"):]) of __send_file
FormatIndex(d) ==
    CASE d = "download_format:0" -> 0
      [] d = "download_format:1" -> 1
      [] OTHER -> -1

command_map == {"cmd_soundcloud", "cmd_spotify", "cmd_youtube", "cmd_deezer"}

----------------------------------------------------------------------------
(* Control transfers of the conversation                                   *)

Top(wr) == wr.stack[Len(wr.stack)]

SetTopCall(wr, call) == [wr EXCEPT !.stack[Len(wr.stack)].call = call]

\* The suspended __user_menu loops whose call is inside the try of _soundcloud
TryFrames(wr) == {k \in 1..Len(wr.stack) : wr.stack[k].call = "soundcloud_try"}

\* The locals of the frames that were left (they are never read again)
ForgetLocals(wr) ==
    [wr EXCEPT !.i = 0, !.msg_link = 0, !.page = 0, !.items = <<>>,
               !.origin = FALSE, !.via_url = FALSE, !.item = MediaItem(FALSE, 0)]

\* run(), lines 126-138: the handler of the conversation's try
FatalException(wr) ==
    [ForgetLocals(Call(wr, Api("send_message", "fatal_conversation_exception")))
        EXCEPT !.thread = "dead", !.exit = "fatal", !.pc = "done", !.stack = <<>>]

\* An Exception raised where the worker stands: the innermost try of
\* _soundcloud catches it (invalid_link, back in the __user_menu loop that
\* selected the service), else run() does.
Raise(wr) ==
    IF TryFrames(wr) # {}
    THEN LET k == CHOOSE k \in TryFrames(wr) : \A j \in TryFrames(wr) : j <= k
         IN [ForgetLocals(Call(wr, Api("send_message", "invalid_link")))
                EXCEPT !.stack = [SubSeq(wr.stack, 1, k) EXCEPT ![k].call = "wait"],
                       !.pc = "menu"]
    ELSE FatalException(wr)

\* _soundcloud returns normally into the loop of the __user_menu that called it
ReturnToMenu(wr) == [ForgetLocals(SetTopCall(wr, "wait")) EXCEPT !.pc = "menu"]

\* __user_menu(): send the menu, wait for a callback (not cancellable)
UserMenu(wr) ==
    [ForgetLocals(Call(wr, Api("send_message", "conversation_open_user_menu")))
        EXCEPT !.stack = Append(@, Frame(0, "wait")), !.pc = "menu"]

\* _admin_menu(): send the admin menu, wait for menu_user_mode
AdminMenu(wr) ==
    [Call(wr, Api("send_message", "conversation_open_admin_menu"))
        EXCEPT !.pc = "admin"]

\* __show_one up to its wait (cancellable)
ShowOne(wr, item, origin) ==
    [Call(wr, Api("edit_message_text", "item"))
        EXCEPT !.pc = "one", !.item = item, !.origin = origin]

\* __show_many up to its wait (not cancellable)
ShowMany(wr, items, page) ==
    [Call(wr, Api("edit_message_reply_markup", "list"))
        EXCEPT !.pc = "many", !.items = items, !.page = page]

\* __show_one / __show_many return to whoever resolved the link: into
\* _handle_extraction (then _soundcloud ends normally), or, for a playlist
\* reached through _handle_url, into _handle_url, whose __show_one(data) then
\* reads data["thumbnails"] of the playlist and raises KeyError.
ReturnFromShow(wr) ==
    IF wr.via_url THEN Raise(wr) ELSE ReturnToMenu(wr)

\* _handle_playlist: the progress edits of entries 1..k
RECURSIVE Progress(_, _, _)
Progress(wr, entries, k) ==
    IF k = 0 THEN wr
    ELSE Call(Progress(wr, entries, k - 1),
              ApiK("edit_message_text", "get_information",
                   ListIndex(entries, entries[k]) + 1))

HandlePlaylist(wr, r, via) ==
    LET n == Len(r.entries)
        w1 == Call(Call(wr, ApiK("edit_message_text", "album_caption", n)),
                   ApiK("send_message", "get_information", 0))
    IN IF r.bad \in 1..n
       THEN Raise(Progress(w1, r.entries, r.bad))
       ELSE ShowMany([Call(Progress(w1, r.entries, n), Api("delete_message", "collect"))
                         EXCEPT !.via_url = via],
                     [k \in 1..n |-> r.item], 0)

\* _handle_url
HandleUrl(wr, r) ==
    CASE r.hop = "raise" -> Raise(wr)
      [] r.hop = "single" -> ShowOne([wr EXCEPT !.via_url = FALSE], r.item, FALSE)
      [] r.hop = "playlist" -> HandlePlaylist(wr, r, TRUE)
      [] OTHER -> Raise(wr)   \* a truthy _type without "entries": KeyError

\* _handle_extraction
HandleExtraction(wr, r) ==
    CASE r.type = "raise" -> Raise(wr)
      [] r.type = "playlist" -> HandlePlaylist(wr, r, FALSE)
      [] r.type = "url" -> HandleUrl(wr, r)
      [] r.type = "single" -> ShowOne([wr EXCEPT !.via_url = FALSE], r.item, FALSE)
      [] OTHER -> ReturnToMenu(wr)

----------------------------------------------------------------------------
(* The three waits: what the loop does with one received item.             *)
(* "ignore": the loop continues with the next queue.get().                 *)

WaitAlwaysCancellable(item, cancellable) ==
    CASE item.kind = "CancelSignal" -> "cancel"
      [] item.kind = "callback_query" -> "select"
      [] OTHER -> "ignore"

\* __wait_for_inlinekeyboard_callback
WaitForInlineKeyboardCallback(item, cancellable) ==
    CASE item.kind = "CancelSignal" -> IF cancellable THEN "cancel" ELSE "ignore"
      [] item.kind = "callback_query" -> "select"
      [] OTHER -> "ignore"

WaitForRegexUncancellable(item, cancellable) ==
    CASE item.kind = "message" -> "match"
      [] OTHER -> "ignore"

\* __wait_for_regex(r"(.*)"): every text matches
WaitForRegex(item, cancellable) ==
    CASE item.kind = "CancelSignal" -> IF cancellable THEN "cancel" ELSE "ignore"
      [] item.kind = "message" -> "match"
      [] OTHER -> "ignore"

\* _wait_for_specific_message
WaitForSpecificMessage(item, items, cancellable) ==
    CASE item.kind = "CancelSignal" -> IF cancellable THEN "cancel" ELSE "ignore"
      [] item.kind = "message" /\ item.content \in items -> "match"
      [] OTHER -> "ignore"

AnswerCallback(wr) == Call(wr, Api("answer_callback_query", ""))

DeleteLink(wr) ==
    [Call(wr, Api("delete_message", "msg_link")) EXCEPT !.msg_link = Min(@ + 1, 2)]

\* __handle_menu_selection, and the selected service up to its next wait
HandleMenuSelection(wr, d) ==
    IF d \notin command_map THEN wr
    ELSE LET w1 == [Call(wr, Api("delete_message", "user_menu"))
                       EXCEPT !.stack[Len(wr.stack)].del = Min(@ + 1, 2)]
         IN IF d = "cmd_soundcloud"
            THEN [Call(SetTopCall(w1, "soundcloud_pre"), Api("send_message", "msg_link"))
                     EXCEPT !.pc = "link", !.i = 0, !.msg_link = 0]
            ELSE UserMenu(Call(SetTopCall(w1, "notify"),
                               Api("send_message", "under_updating")))

\* The wait of __user_menu.  A CancelSignal has no attribute data.
UserMenuWait(wr, item) ==
    LET res == WaitForInlineKeyboardCallback(item, FALSE)
    IN CASE res = "ignore" -> wr
         [] res = "cancel" -> Raise(wr)
         [] OTHER -> HandleMenuSelection(AnswerCallback(wr), item.content)

\* The wait of _admin_menu
AdminMenuWait(wr, item) ==
    LET res == WaitForSpecificMessage(item, {menu_user_mode}, FALSE)
    IN CASE res = "ignore" -> wr
         [] res = "cancel" -> AdminMenu(wr)
         [] OTHER -> UserMenu(Call(wr, Api("send_message",
                                           "conversation_switch_to_user_mode")))

FinalNoticeSkipped(wr) == wr

\* _get_link line 326: the notice that follows the while loop
FinalNotice(wr) == Call(wr, Api("send_message", "invalid_link"))

\* The wait of _get_link, and what _soundcloud does with its result
GetLinkWait(wr, item, r) ==
    LET res == WaitForRegex(item, TRUE)
    IN CASE res = "ignore" -> wr
         [] res = "cancel" -> UserMenu(IF wr.i = 1 THEN DeleteLink(wr) ELSE wr)
         [] IsServiceLink(item.content) ->
                HandleExtraction(Call(DeleteLink(SetTopCall(wr, "soundcloud_try")),
                                      Api("send_message", "menu_loading")), r)
         [] OTHER ->
                LET w1 == Call(IF wr.i >= 1 THEN DeleteLink(wr) ELSE wr,
                               Api("send_message", "invalid_link"))
                IN IF wr.i + 1 < MAX_RETRIES
                   THEN [w1 EXCEPT !.i = wr.i + 1]
                   \* the loop ends, the final notice is sent, None is returned
                   \* and "link, msg_id = None" raises TypeError outside the try
                   ELSE Raise(FinalNotice(w1))

\* What the two requests.get and bot.send_audio of _send_audio_file do: the
\* audio is sent, or one of them raises
SendOutcomes == {"sent", "raise"}

\* _send_audio_file: an Exception of the fetches or of send_audio is logged
\* (log.error, kept with the calls of the step) and not raised again
_send_audio_file(wr, r) ==
    IF r = "sent"
    THEN Call(wr, Api("send_audio", "format"))
    ELSE Call(wr, Api("log.error", "Failed to send audio"))

SendFileUncaught(wr, k, r) ==
    IF k < wr.item.nfmt
    THEN LET w1 == Call(wr, Api("delete_message", "item"))
         IN IF wr.item.thumb /\ r = "raise"
            THEN Raise(w1)
            ELSE UserMenu(IF wr.item.thumb THEN _send_audio_file(w1, r) ELSE w1)
    ELSE ReturnFromShow(wr)

\* __send_file
SendFile(wr, k, r) ==
    IF k < wr.item.nfmt
    THEN LET w1 == Call(wr, Api("delete_message", "item"))
         IN UserMenu(IF wr.item.thumb THEN _send_audio_file(w1, r) ELSE w1)
    ELSE ReturnFromShow(wr)

\* The wait of __show_one
ShowOneWait(wr, item, r) ==
    LET res == WaitForInlineKeyboardCallback(item, TRUE)
        d == item.content
    IN CASE res = "ignore" -> wr
         [] res = "cancel" ->
                IF wr.origin
                THEN ShowMany(wr, wr.items, 0)
                ELSE UserMenu(Call(wr, Api("delete_message", "item")))
         [] d = "download_cover" ->
                LET w1 == Call(AnswerCallback(wr), Api("delete_message", "item"))
                IN IF wr.item.thumb
                   THEN UserMenu(Call(w1, Api("send_photo", "cover")))
                   ELSE Raise(w1)     \* best_thumbnail["url"] of None
         [] FormatIndex(d) >= 0 -> SendFile(AnswerCallback(wr), FormatIndex(d), r)
         [] OTHER -> ReturnFromShow(AnswerCallback(wr))

\* The wait of __show_many
ShowManyWait(wr, item) ==
    LET res == WaitForInlineKeyboardCallback(item, FALSE)
        d == item.content
        page_data == PySlice(wr.items, wr.page * ITEMS_PER_PAGE,
                             (wr.page + 1) * ITEMS_PER_PAGE)
    IN CASE res = "ignore" -> wr
         [] res = "cancel" -> Raise(wr)
         [] d = "cmd_cancel" ->
                UserMenu(Call(AnswerCallback(wr), Api("delete_message", "list")))
         [] d \in {"next", "prev"} ->
                ShowMany(AnswerCallback(wr), wr.items,
                         IF d = "next" THEN wr.page + 1 ELSE wr.page - 1)
         [] ButtonIndex(d) >= 0 /\ ButtonIndex(d) < Len(page_data) ->
                ShowOne(AnswerCallback(wr), page_data[ButtonIndex(d) + 1], TRUE)
         [] OTHER -> Raise(AnswerCallback(wr))   \* ValueError or IndexError

GracefulStopAlwaysNotifies(wr, reason) ==
    [Call(wr, Api("send_message", "conversation_expired"))
        EXCEPT !.session = "closed", !.thread = "dead", !.exit = reason,
               !.pc = "done", !.stack = <<>>]

GracefulStopNoExit(wr, reason) ==
    [wr EXCEPT !.session = "closed"]

\* _graceful_stop: the notice on timeout, session.close(), sys.exit(0)
GracefulStop(wr, reason) ==
    [ForgetLocals(IF reason = "timeout"
                  THEN Call(wr, Api("send_message", "conversation_expired"))
                  ELSE wr)
        EXCEPT !.session = "closed", !.thread = "dead", !.exit = reason,
               !.pc = "done", !.stack = <<>>]

QueueGetNewest(q) == q[Len(q)]

\* Queue.get(): the oldest item
QueueGet(q) == Head(q)
QueueRest(q) == Tail(q)
\* Queue.put()
QueuePut(q, x) == Append(q, x)

\* One turn of a wait loop: __receive_next_update and what follows it up to
\* the next queue.get()
Receive(wr, r) ==
    LET item == QueueGet(wr.queue)
        w1 == [wr EXCEPT !.queue = QueueRest(wr.queue), !.data = item, !.calls = <<>>]
    IN CASE item.kind = "StopSignal" -> GracefulStop(w1, item.content)
         [] wr.pc = "menu" -> UserMenuWait(w1, item)
         [] wr.pc = "admin" -> AdminMenuWait(w1, item)
         [] wr.pc = "link" -> GetLinkWait(w1, item, r)
         [] wr.pc = "one" -> ShowOneWait(w1, item, r)
         [] OTHER -> ShowManyWait(w1, item)

\* The resolver is asked only when a service link was received in _get_link
Resolves(wr) ==
    /\ wr.pc = "link"
    /\ wr.queue # <<>>
    /\ Head(wr.queue).kind = "message"
    /\ IsServiceLink(Head(wr.queue).content)

\* _send_audio_file is called only for an offered format of an item with a
\* best thumbnail
Sends(wr) ==
    /\ wr.pc = "one"
    /\ wr.queue # <<>>
    /\ Head(wr.queue).kind = "callback_query"
    /\ FormatIndex(Head(wr.queue).content) \in 0..(wr.item.nfmt - 1)
    /\ wr.item.thumb

----------------------------------------------------------------------------
(* Worker.run before the conversation                                      *)

Admin(id) == [user_id |-> id, is_owner |-> TRUE]

AdminIds == {a.user_id : a \in db.admins}

\* run(), lines 69-84: the two lookups and, for a new user, will_be_owner
Lookup(wr) ==
    LET known == wr.chat \in db.users
    IN [wr EXCEPT !.user = known,
                  !.admin = wr.chat \in AdminIds,
                  !.new_user = ~known,
                  !.will_be_owner = ~known /\ db.admins = {},
                  !.pc = "register"]

\* run(), lines 85-103: the rows are added and committed, then
\* _create_localization sets loc
Register(wr) ==
    [wr EXCEPT !.user = TRUE,
               !.admin = wr.admin \/ wr.will_be_owner,
               !.loc = "set",
               !.pc = "enter"]

Registered(wr) ==
    [users |-> IF wr.new_user THEN db.users \cup {wr.chat} ELSE db.users,
     admins |-> IF wr.will_be_owner THEN db.admins \cup {Admin(wr.chat)} ELSE db.admins]

\* run(), lines 106-115: one new_user_in message per Admin row
RECURSIVE NotifyAdmins(_, _)
NotifyAdmins(wr, ids) ==
    IF ids = {} THEN wr
    ELSE LET a == CHOOSE x \in ids : \A y \in ids : x <= y
         IN NotifyAdmins(Call(wr, ApiK("send_message", "new_user_in", a)), ids \ {a})

\* run(), lines 106-125: the notifications, then the menu of the role
Enter(wr) ==
    LET w1 == IF wr.new_user THEN NotifyAdmins([wr EXCEPT !.calls = <<>>], AdminIds)
              ELSE [wr EXCEPT !.calls = <<>>]
    IN IF wr.admin THEN AdminMenu(w1) ELSE UserMenu(w1)

\* An exception outside the try of run(): the thread ends, nothing is sent,
\* the session stays open
ThreadException(wr) ==
    [wr EXCEPT !.thread = "dead", !.exit = "error", !.pc = "done", !.calls = <<>>]

\* Worker.is_ready: self.loc is not None, AttributeError if loc was never set
is_ready(wr) ==
    CASE wr.loc = "absent" -> "AttributeError"
      [] wr.loc = "None" -> "False"
      [] OTHER -> "True"

----------------------------------------------------------------------------
(* State of the process after main() has set up                            *)

NoUpdate == Message(0, "")

InitialDbs ==
    {[users |-> {}, admins |-> {}],
     [users |-> {0}, admins |-> {Admin(0)}]}

\* no function is applied on its own
NoPure == [fn |-> "none", done |-> TRUE]

InitProcess ==
    /\ corePc = "poll"
    /\ updates = 0
    /\ cur = NoUpdate
    /\ next_update = None
    /\ chat_workers = [c \in Chats |-> NoWorker]
    /\ workers = <<>>
    /\ db \in InitialDbs
    /\ coreCalls = <<>>

Init == InitProcess /\ pure = NoPure

Running == corePc # "crashed"

\* update_id of the first update get_updates(offset=next_update) returns
Offset == IF next_update = None THEN 0 ELSE next_update

----------------------------------------------------------------------------
(* main(): the Dispatcher                                                  *)

\* update.message.text.startswith("/start")
IsStart(text) == text = "/start"

Reply(calls) == [act |-> "reply", w |-> NoWorker, item |-> CancelSignal, calls |-> calls]
Put(w, item, calls) == [act |-> "put", w |-> w, item |-> item, calls |-> calls]
Crash == [act |-> "crash", w |-> NoWorker, item |-> CancelSignal, calls |-> <<>>]
Stop(w) == [act |-> "stop", w |-> w, item |-> StopSignal("request"), calls |-> <<>>]
Spawn == [act |-> "spawn", w |-> NoWorker, item |-> CancelSignal, calls |-> <<>>]

\* core.py lines 119-200: a message
RouteMessage(u, w) ==
    CASE u.chat_type # "private" ->
            Reply(<<Api("send_message", "error_nonprivate_chat")>>)
      [] IsStart(u.content) -> IF w # NoWorker THEN Stop(w) ELSE Spawn
      [] w = NoWorker -> Reply(<<Api("send_message", "error_no_worker_for_chat")>>)
      [] is_ready(workers[w]) = "AttributeError" -> Crash
      [] is_ready(workers[w]) = "False" ->
            Reply(<<Api("send_message", "error_worker_not_ready")>>)
      [] u.content = menu_cancel -> Put(w, CancelSignal, <<>>)
      [] OTHER -> Put(w, Item(u), <<>>)

\* core.py lines 202-231: an inline keyboard press
RouteCallback(u, w) ==
    CASE w = NoWorker -> Reply(<<Api("send_message", "error_no_worker_for_chat")>>)
      [] u.content = "cmd_cancel" ->
            Put(w, CancelSignal, <<Api("answer_callback_query", "")>>)
      [] OTHER -> Put(w, Item(u), <<>>)

\* core.py lines 233-264: a pre-checkout query
RoutePreCheckout(u, w) ==
    CASE w = NoWorker ->
            Reply(<<Api("answer_pre_checkout_query", "error_invoice_expired")>>)
      [] workers[w].invoice_payload = "absent" -> Crash    \* AttributeError
      [] u.content # workers[w].invoice_payload ->
            Reply(<<Api("answer_pre_checkout_query", "error_invoice_expired")>>)
      [] OTHER -> Put(w, Item(u), <<>>)

Route(u) ==
    LET w == chat_workers[u.chat]
    IN CASE u.kind = "message" -> RouteMessage(u, w)
         [] u.kind = "callback_query" -> RouteCallback(u, w)
         [] OTHER -> RoutePreCheckout(u, w)

\* update_id of the update the for loop is at
UpdateId == Offset + updates

AdvanceKeepsCursor(maxU) ==
    \E last \in IF UpdateId + 1 >= maxU THEN {TRUE} ELSE BOOLEAN :
       IF last
       THEN /\ corePc' = "poll"
            /\ next_update' = next_update
            /\ updates' = 0
       ELSE /\ corePc' = "loop"
            /\ next_update' = next_update
            /\ updates' = updates + 1

\* The for loop moves on.  The update was the last one of its batch (then
\* next_update = updates[-1].update_id + 1 and main() polls again) or it was
\* not; the model is given maxU updates in all.
Advance(maxU) ==
    \E last \in IF UpdateId + 1 >= maxU THEN {TRUE} ELSE BOOLEAN :
       IF last
       THEN /\ corePc' = "poll"
            /\ next_update' = UpdateId + 1
            /\ updates' = 0
       ELSE /\ corePc' = "loop"
            /\ next_update' = next_update
            /\ updates' = updates + 1

\* bot.get_updates(offset=next_update, timeout=...) returns a batch: an empty
\* one (the long poll timed out) or one that holds the update UpdateId
GetUpdates(maxU) ==
    /\ corePc = "poll"
    /\ \E empty \in IF Offset >= maxU THEN {TRUE} ELSE BOOLEAN :
          corePc' = IF empty THEN "poll" ELSE "loop"
    /\ coreCalls' = <<>>
    /\ UNCHANGED <<updates, cur, next_update, chat_workers, workers, db, pure>>

\* One turn of "for update in updates", up to the join() of a /start
ParseUpdate(E, maxU) ==
    /\ corePc = "loop"
    /\ \E u \in E :
          LET o == Route(u)
          IN /\ coreCalls' = o.calls
             /\ CASE o.act = "crash" ->
                        /\ corePc' = "crashed"
                        /\ cur' = u
                        /\ UNCHANGED <<updates, next_update, chat_workers, workers>>
                  [] o.act = "stop" ->
                        /\ corePc' = "join"
                        /\ cur' = u
                        /\ workers' = [workers EXCEPT ![o.w].queue = QueuePut(@, o.item)]
                        /\ UNCHANGED <<updates, next_update, chat_workers>>
                  [] o.act = "spawn" ->
                        /\ workers' = Append(workers, NewWorker(u.chat))
                        /\ chat_workers' = [chat_workers EXCEPT ![u.chat] = Len(workers) + 1]
                        /\ Advance(maxU)
                        /\ UNCHANGED cur
                  [] o.act = "put" ->
                        /\ workers' = [workers EXCEPT ![o.w].queue = QueuePut(@, o.item)]
                        /\ Advance(maxU)
                        /\ UNCHANGED <<cur, chat_workers>>
                  [] OTHER ->
                        /\ Advance(maxU)
                        /\ UNCHANGED <<cur, chat_workers, workers>>
    /\ UNCHANGED <<db, pure>>

JoinedAtOnce(wr) == TRUE

\* Thread.join() returns once the thread has ended
Joined(wr) == wr.thread = "dead"

\* old_worker.stop("request") returns; the new Worker is made, started and stored
JoinReturns(maxU) ==
    /\ corePc = "join"
    /\ Joined(workers[chat_workers[cur.chat]])
    /\ workers' = Append(workers, NewWorker(cur.chat))
    /\ chat_workers' = [chat_workers EXCEPT ![cur.chat] = Len(workers) + 1]
    /\ cur' = NoUpdate
    /\ coreCalls' = <<>>
    /\ Advance(maxU)
    /\ UNCHANGED <<db, pure>>

----------------------------------------------------------------------------
(* The worker threads                                                      *)

Alive(w) == Running /\ workers[w].thread = "alive"

WorkerLookup(w) ==
    /\ Alive(w) /\ workers[w].pc = "lookup"
    /\ workers' = [workers EXCEPT ![w] = Lookup(@)]
    /\ UNCHANGED <<corePc, updates, cur, next_update, chat_workers, db, coreCalls, pure>>

WorkerRegister(w) ==
    /\ Alive(w) /\ workers[w].pc = "register"
    /\ workers' = [workers EXCEPT ![w] = Register(@)]
    /\ db' = Registered(workers[w])
    /\ UNCHANGED <<corePc, updates, cur, next_update, chat_workers, coreCalls, pure>>

WorkerEnter(w) ==
    /\ Alive(w) /\ workers[w].pc = "enter"
    /\ workers' = [workers EXCEPT ![w] = Enter(@)]
    /\ UNCHANGED <<corePc, updates, cur, next_update, chat_workers, db, coreCalls, pure>>

\* A storage or BotAPI call of run() raises before the try
WorkerStartupFails(w) ==
    /\ Alive(w) /\ workers[w].pc \in {"lookup", "register", "enter"}
    /\ workers' = [workers EXCEPT ![w] = ThreadException(@)]
    /\ UNCHANGED <<corePc, updates, cur, next_update, chat_workers, db, coreCalls, pure>>

WorkerReceive(w) ==
    /\ Alive(w) /\ Waiting(workers[w]) /\ workers[w].queue # <<>>
    /\ \E r \in CASE Resolves(workers[w]) -> ResolverOutcomes
                  [] Sends(workers[w]) -> SendOutcomes
                  [] OTHER -> {NoOutcome} :
          workers' = [workers EXCEPT ![w] = Receive(@, r)]
    /\ UNCHANGED <<corePc, updates, cur, next_update, chat_workers, db, coreCalls, pure>>

\* queue.get(timeout=conversation_timeout) raises Empty
WorkerTimeout(w) ==
    /\ Alive(w) /\ Waiting(workers[w]) /\ workers[w].queue = <<>>
    /\ workers' = [workers EXCEPT ![w] = GracefulStop([@ EXCEPT !.calls = <<>>], "timeout")]
    /\ UNCHANGED <<corePc, updates, cur, next_update, chat_workers, db, coreCalls, pure>>

----------------------------------------------------------------------------
(* Updates the models are run with                                         *)

CoreEvents ==
    UNION {{Message(c, "/start"), Message(c, "text"), Message(c, menu_cancel),
            Callback(c, "cmd_spotify"), Callback(c, "cmd_cancel"),
            PreCheckout(c, "payload")} : c \in Chats}
    \cup {GroupMessage(1, "text")}

ConvEvents ==
    {Message(1, "/start"), Message(1, soundcloud_url), Message(1, "text"),
     Message(1, menu_cancel),
     Callback(1, "cmd_cancel"), Callback(1, "cmd_soundcloud"), Callback(1, "cmd_spotify"),
     Callback(1, "next"), Callback(1, "button_0"), Callback(1, "download_format:0"),
     Callback(1, "download_cover")}

NextOver(E, maxU) ==
    \/ GetUpdates(maxU)
    \/ ParseUpdate(E, maxU)
    \/ JoinReturns(maxU)
    \/ \E w \in DOMAIN workers : WorkerLookup(w)
    \/ \E w \in DOMAIN workers : WorkerRegister(w)
    \/ \E w \in DOMAIN workers : WorkerEnter(w)
    \/ \E w \in DOMAIN workers : WorkerReceive(w)
    \/ \E w \in DOMAIN workers : WorkerStartupFails(w)
    \/ \E w \in DOMAIN workers : WorkerTimeout(w)

LiveEvents ==
    {Message(1, "/start"), Message(1, "text"), Message(1, soundcloud_url),
     Callback(1, "cmd_soundcloud"), Callback(1, "cmd_cancel")}

LinkEvents ==
    {Message(1, "/start"), Callback(1, "cmd_soundcloud"), Message(1, "text"),
     Message(1, soundcloud_url), Message(1, menu_cancel)}

Next == NextOver(CoreEvents, MaxUpdates)
NextLink == NextOver(LinkEvents, MaxLinkUpdates)
NextConv == NextOver(ConvEvents, MaxConvUpdates)
NextLive == NextOver(LiveEvents, MaxLiveUpdates)

\* Two chats, the events the Dispatcher tells apart
Spec == Init /\ [][Next]_vars

\* One chat, the events the conversation tells apart
SpecConv == Init /\ [][NextConv]_vars

\* One chat, the events the wait for a link tells apart
SpecLink == Init /\ [][NextLink]_vars

\* A started thread that can run does run, and so does main() once join()
\* can return.  Nothing is assumed of the updates or of the timeouts.
ThreadRuns(w) ==
    /\ w \in DOMAIN workers
    /\ \/ WorkerLookup(w)
       \/ WorkerRegister(w)
       \/ WorkerEnter(w)
       \/ WorkerReceive(w)

Fairness ==
    /\ WF_vars(JoinReturns(MaxLiveUpdates))
    /\ \A w \in 1..MaxLiveUpdates : WF_vars(ThreadRuns(w))

SpecLive == Init /\ [][NextLive]_vars /\ Fairness

----------------------------------------------------------------------------
(* Functions of worker.py applied on their own: pure holds the input of    *)
(* one call and, once the call is done, its result.                        *)

NavigationButtonsInclusive(page, data_list_length) ==
    (IF page > 0 THEN <<"prev">> ELSE <<>>)
    \o (IF (page + 1) * ITEMS_PER_PAGE <= data_list_length THEN <<"next">> ELSE <<>>)
    \o <<"cmd_cancel">>

\* _create_navigation_buttons: the callback_data of the buttons of the row
_create_navigation_buttons(page, data_list_length) ==
    (IF page > 0 THEN <<"prev">> ELSE <<>>)
    \o (IF (page + 1) * ITEMS_PER_PAGE < data_list_length THEN <<"next">> ELSE <<>>)
    \o <<"cmd_cancel">>

NavigationInputs ==
    {[fn |-> "_create_navigation_buttons", done |-> FALSE,
      page |-> page, data_list_length |-> n, out |-> <<>>] :
        page \in 0..MaxPage, n \in 0..MaxItems}

ApplyNavigation ==
    /\ pure.fn = "_create_navigation_buttons" /\ ~pure.done
    /\ pure' = [pure EXCEPT !.done = TRUE,
                            !.out = _create_navigation_buttons(pure.page,
                                                               pure.data_list_length)]
    /\ UNCHANGED <<corePc, updates, cur, next_update, chat_workers, workers, db, coreCalls>>

\* str.upper() of the container names used
upper(ext) ==
    CASE ext = "mp3" -> "MP3"
      [] ext = "opus" -> "OPUS"
      [] OTHER -> ext

\* f"{format_info['abr']} kbps {format_info['ext'].upper()}"
format_key(format_info) == <<format_info.abr, "kbps", upper(format_info.ext)>>

EligibleFrom64(format_info) == format_info.abr >= 64 /\ ~format_info.url.m3u8

\* the condition of line 438; url.m3u8 stands for: ".m3u8" in format_info["url"]
Eligible(format_info) == format_info.abr > 64 /\ ~format_info.url.m3u8

RECURSIVE FormatButtonsNoDedup(_)
FormatButtonsNoDedup(formats) ==
    IF formats = <<>>
    THEN [format_buttons |-> <<>>, format_urls |-> <<>>]
    ELSE LET n == Len(formats)
             f == formats[n]
             acc == FormatButtonsNoDedup(SubSeq(formats, 1, n - 1))
         IN IF Eligible(f)
            THEN [format_buttons |->
                      Append(acc.format_buttons,
                             [text |-> format_key(f), index |-> Len(acc.format_urls)]),
                  format_urls |-> Append(acc.format_urls, f.url)]
            ELSE acc

\* _create_format_buttons: the buttons (text key, index of callback_data)
\* and the urls; format_seen is the set of the texts of the buttons
RECURSIVE _create_format_buttons(_)
_create_format_buttons(formats) ==
    IF formats = <<>>
    THEN [format_buttons |-> <<>>, format_urls |-> <<>>]
    ELSE LET n == Len(formats)
             f == formats[n]
             acc == _create_format_buttons(SubSeq(formats, 1, n - 1))
             format_seen == {acc.format_buttons[k].text : k \in DOMAIN acc.format_buttons}
         IN IF Eligible(f) /\ format_key(f) \notin format_seen
            THEN [format_buttons |->
                      Append(acc.format_buttons,
                             [text |-> format_key(f), index |-> Len(acc.format_urls)]),
                  format_urls |-> Append(acc.format_urls, f.url)]
            ELSE acc

\* Format lists: bitrates around the threshold, containers that differ in
\* case only, playlist (.m3u8) urls; the url of a format is its own
FormatKinds ==
    [abr : {32, 64, 128}, ext : {"mp3", "MP3", "opus"}, m3u8 : BOOLEAN]

FormatList(kinds) ==
    [k \in DOMAIN kinds |->
        [abr |-> kinds[k].abr, ext |-> kinds[k].ext,
         url |-> [id |-> k, m3u8 |-> kinds[k].m3u8]]]

FormatInput(formats) ==
    [fn |-> "_create_format_buttons", done |-> FALSE, formats |-> formats,
     out |-> [format_buttons |-> <<>>, format_urls |-> <<>>]]

ApplyFormats ==
    /\ pure.fn = "_create_format_buttons" /\ ~pure.done
    /\ pure' = [pure EXCEPT !.done = TRUE, !.out = _create_format_buttons(pure.formats)]
    /\ UNCHANGED <<corePc, updates, cur, next_update, chat_workers, workers, db, coreCalls>>

\* utils.check_thumbnail: the url itself when the GET answers 200 with a JPEG
\* content type and a Content-Length under 200 kB, None otherwise (also when
\* requests.get raises: status 0); as a truth value
check_thumbnail(thumbnail_url) ==
    /\ thumbnail_url.status_code = 200
    /\ thumbnail_url.content_type = "image/jpeg"
    /\ thumbnail_url.content_length < 200 * 1024

\* _get_best_thumbnail: the position in thumbnails of the thumbnail returned,
\* 0 for None.  `a or b and c`: a thumbnail with "resolution" replaces
\* best_thumbnail when there is none yet, or when it is wider and the
\* present best_thumbnail passes check_thumbnail.
RECURSIVE _get_best_thumbnail(_)
_get_best_thumbnail(thumbnails) ==
    IF thumbnails = <<>>
    THEN 0
    ELSE LET n == Len(thumbnails)
             thumbnail_info == thumbnails[n]
             best_thumbnail == _get_best_thumbnail(SubSeq(thumbnails, 1, n - 1))
         IN IF /\ thumbnail_info.resolution
               /\ \/ best_thumbnail = 0
                  \/ /\ thumbnail_info.width > thumbnails[best_thumbnail].width
                     /\ check_thumbnail(thumbnails[best_thumbnail].url)
            THEN n
            ELSE best_thumbnail

\* Thumbnails: with or without "resolution", three widths, what the GET of
\* the url answers (0: no answer; sizes around 200 kB)
ThumbnailKinds ==
    [resolution : BOOLEAN, width : 1..3, status_code : {0, 200, 404},
     content_type : {"image/jpeg", "image/png"},
     content_length : {1024, 200 * 1024}]

ThumbnailList(kinds) ==
    [k \in DOMAIN kinds |->
        [resolution |-> kinds[k].resolution, width |-> kinds[k].width,
         url |-> [id |-> k, status_code |-> kinds[k].status_code,
                  content_type |-> kinds[k].content_type,
                  content_length |-> kinds[k].content_length]]]

ThumbnailInput(thumbnails) ==
    [fn |-> "_get_best_thumbnail", done |-> FALSE, thumbnails |-> thumbnails, out |-> 0]

ApplyThumbnails ==
    /\ pure.fn = "_get_best_thumbnail" /\ ~pure.done
    /\ pure' = [pure EXCEPT !.done = TRUE, !.out = _get_best_thumbnail(pure.thumbnails)]
    /\ UNCHANGED <<corePc, updates, cur, next_update, chat_workers, workers, db, coreCalls>>

InitPure ==
    /\ InitProcess
    /\ \/ pure \in NavigationInputs
       \/ \E n \in 0..MaxFormats : \E kinds \in [1..n -> FormatKinds] :
             pure = FormatInput(FormatList(kinds))
       \/ \E n \in 0..MaxThumbnails : \E kinds \in [1..n -> ThumbnailKinds] :
             pure = ThumbnailInput(ThumbnailList(kinds))

NextPure ==
    \/ ApplyNavigation
    \/ ApplyFormats
    \/ ApplyThumbnails

\* One call of one function, for every input of the bounded sets
SpecPure == InitPure /\ [][NextPure]_vars

----------------------------------------------------------------------------
(* Properties                                                              *)

WorkersOf(c) == {w \in DOMAIN workers : workers[w].chat = c}

\* a later Worker was constructed for the chat of worker w
Replaced(ws, w) == \E v \in DOMAIN ws : v > w /\ ws[v].chat = ws[w].chat

\* the worker the registry holds for the chat of update cur
Registered_cur == workers[chat_workers[cur.chat]]

\* C1: in every reachable state, for every chat, at most one Worker thread
\* made for that chat is alive (started and not yet ended).
C1_AtMostOneLiveWorker ==
    \A c \in Chats :
        Cardinality({w \in WorkersOf(c) : workers[w].thread = "alive"}) <= 1

\* C1 witness: a second /start has replaced a worker: the old thread has
\* ended on the stop request and the new one runs.
C1_Witness ==
    \E w \in DOMAIN workers :
        /\ Replaced(workers, w)
        /\ workers[w].exit = "request"
        /\ workers[chat_workers[workers[w].chat]].thread = "alive"

\* C2: a failure of a chat's worker never ends the Dispatcher loop: main()
\* is never ended by an update of a chat whose worker thread died of an
\* exception.
C2_FailureContained ==
    ~(/\ corePc = "crashed"
      /\ Registered_cur.thread = "dead"
      /\ Registered_cur.exit \in {"error", "fatal"})

\* C3: when a /start replaces a worker, the old thread has ended before the
\* new Worker is constructed, and from then on the old worker does nothing:
\* it makes no BotAPI call and takes nothing from its queue.
C3_OldEndsBeforeNew ==
    [][\A w \in DOMAIN workers :
          Replaced(workers', w) =>
              workers[w].thread = "dead" /\ workers'[w] = workers[w]]_vars

\* C3 witness: a replaced worker that was stopped after it had become
\* ready, and whose successor has become ready.
C3_Witness ==
    \E w \in DOMAIN workers :
        /\ Replaced(workers, w)
        /\ workers[w].exit = "request"
        /\ workers[w].loc = "set"
        /\ workers[chat_workers[workers[w].chat]].loc = "set"

\* C4: the Dispatcher never puts an event or a CancelSignal into the queue
\* of a worker whose thread has ended (only the StopSignal of stop() may
\* still be put there).
C4_NoDeliveryToTerminated ==
    [][\A w \in DOMAIN workers :
          workers[w].thread = "dead" =>
              \/ workers'[w].queue = workers[w].queue
              \/ workers'[w].queue = Append(workers[w].queue, StopSignal("request"))]_vars

\* C5: every change of a worker's queue is a put at its tail or the get of
\* its head by the worker, one item per step, and the item the worker then
\* handles is that head: the items are handled in the order they were put.
C5_MailboxFifo ==
    [][\A w \in DOMAIN workers :
          LET q == workers[w].queue
              q2 == workers'[w].queue
          IN \/ q2 = q
             \/ /\ Len(q2) = Len(q) + 1
                /\ SubSeq(q2, 1, Len(q)) = q
                /\ workers'[w] = [workers[w] EXCEPT !.queue = q2]
             \/ /\ q # <<>>
                /\ q2 = Tail(q)
                /\ workers'[w].data = Head(q)]_vars

\* C5 witness: a message and then a callback were put; the worker has taken
\* the message and the callback is next.
C5_Witness ==
    \E w \in DOMAIN workers :
        /\ workers[w].data.kind = "message"
        /\ workers[w].queue # <<>>
        /\ Head(workers[w].queue).kind = "callback_query"

\* C6: every stop("request") returns: whenever main() is blocked in the
\* join() of stop, it later goes on with its loop.
C6_StopReturns == (corePc = "join") ~> (corePc \in {"loop", "poll"})

\* C6 witness: main() is blocked in join() while the worker it stops still
\* has an item to handle before the StopSignal.
C6_Witness ==
    /\ corePc = "join"
    /\ Registered_cur.thread = "alive"
    /\ Len(Registered_cur.queue) >= 2

\* C7: a text message that is no /start, for a chat whose registered worker
\* is not ready, is answered and main() goes on: main() is never ended by it.
C7_NotReadyAnswered ==
    ~(/\ corePc = "crashed"
      /\ cur.kind = "message"
      /\ Registered_cur.thread = "alive"
      /\ is_ready(Registered_cur) # "True")

\* C8: a pre-checkout query is answered or forwarded and main() goes on
\* with the next update: main() is never ended by a pre-checkout query.
C8_PreCheckoutAnswered ==
    ~(corePc = "crashed" /\ cur.kind = "pre_checkout_query")

\* The waits the code enters without cancellable=True: __user_menu (258),
\* _admin_menu (654), __show_many (570)
NonCancellable == {"menu", "admin", "many"}

\* worker w takes a CancelSignal from its queue in this step
TakesCancel(w) ==
    /\ workers[w].thread = "alive"
    /\ workers[w].queue # <<>>
    /\ Head(workers[w].queue) = CancelSignal
    /\ workers'[w].queue = Tail(workers[w].queue)

\* C9: a CancelSignal taken at a wait that is not cancellable is dropped:
\* the worker makes no BotAPI call and nothing of its state changes but the
\* queue, which has lost the signal.
C9_CancelDropped ==
    [][\A w \in DOMAIN workers :
          TakesCancel(w) /\ workers[w].pc \in NonCancellable =>
              workers'[w] = [workers[w] EXCEPT !.queue = Tail(@),
                                               !.data = CancelSignal,
                                               !.calls = <<>>]]_vars

\* C9 witness: the worker has just dropped a CancelSignal while it showed
\* an item list.
C9_Witness ==
    \E w \in DOMAIN workers :
        /\ workers[w].pc = "many"
        /\ workers[w].data = CancelSignal
        /\ workers[w].calls = <<>>

\* C10: while the worker shows an item list, the Cancel button (which
\* main() forwards as a CancelSignal) makes it delete the listing message
\* and return to the user menu.
C10_CancelLeavesList ==
    [][\A w \in DOMAIN workers :
          TakesCancel(w) /\ workers[w].pc = "many" =>
              /\ workers'[w].pc = "menu"
              /\ \E k \in DOMAIN workers'[w].calls :
                    workers'[w].calls[k] = Api("delete_message", "list")]_vars

TakesInvalidLink(w) ==
    /\ workers[w].thread = "alive"
    /\ workers[w].pc = "link"
    /\ workers[w].queue # <<>>
    /\ Head(workers[w].queue).kind = "message"
    /\ ~IsServiceLink(Head(workers[w].queue).content)
    /\ workers'[w].queue = Tail(workers[w].queue)

\* C12: the third consecutive message without a service link makes the
\* worker send the final invalid-link notice and return to the user menu,
\* alive; an earlier one makes it wait for the next attempt.
C12_RetriesEndInMenu ==
    [][\A w \in DOMAIN workers :
          TakesInvalidLink(w) =>
              IF workers[w].i + 1 < MAX_RETRIES
              THEN workers'[w].pc = "link" /\ workers'[w].i = workers[w].i + 1
              ELSE /\ workers'[w].thread = "alive"
                   /\ workers'[w].pc = "menu"]_vars

\* worker w takes a text message with a service link while it waits for a link
TakesServiceLink(w) ==
    /\ workers[w].thread = "alive"
    /\ workers[w].pc = "link"
    /\ workers[w].queue # <<>>
    /\ Head(workers[w].queue).kind = "message"
    /\ IsServiceLink(Head(workers[w].queue).content)
    /\ workers'[w].queue = Tail(workers[w].queue)

InvalidLinkNotice == Api("send_message", "invalid_link")

\* the notice of _handle_invalid_link is followed by the final notice
HasFinalNotice(calls) ==
    \E k \in 1..(Len(calls) - 1) :
        calls[k] = InvalidLinkNotice /\ calls[k + 1] = InvalidLinkNotice

\* C13 as stated: the final invalid-link notice is sent on every exit from
\* the retry loop, also when the attempt supplied a valid service link: the
\* step that takes a service link starts with that notice.
C13_FinalNoticeAlways ==
    [][\A w \in DOMAIN workers :
          TakesServiceLink(w) => workers'[w].calls[1] = InvalidLinkNotice]_vars

\* C13 amended: the final invalid-link notice is sent exactly when the loop
\* ends because the attempts are exhausted.  A valid service link returns
\* from inside the loop: the worker goes on with the deletion of the prompt
\* and the loading message, and no final notice is sent; an invalid attempt
\* before the last sends the one notice of _handle_invalid_link.
C13_FinalNoticeOnExhaustion ==
    [][\A w \in DOMAIN workers :
          LET wr == workers[w]
              calls == workers'[w].calls
          IN /\ TakesServiceLink(w) =>
                   /\ Len(calls) >= 2
                   /\ calls[1] = Api("delete_message", "msg_link")
                   /\ calls[2] = Api("send_message", "menu_loading")
                   /\ ~HasFinalNotice(calls)
             /\ TakesInvalidLink(w) =>
                   (HasFinalNotice(calls) <=> wr.i + 1 >= MAX_RETRIES)]_vars

\* C13 witness: a valid service link was taken at the last attempt and the
\* item is shown: no invalid-link notice was sent.
C13_Witness ==
    \E w \in DOMAIN workers :
        /\ workers[w].pc = "one"
        /\ workers[w].data = Item(Message(1, soundcloud_url))
        /\ workers[w].i = MAX_RETRIES - 1
        /\ \A k \in DOMAIN workers[w].calls : workers[w].calls[k] # InvalidLinkNotice

\* C14: no text message or callback delivered to a worker makes it
\* terminate: a thread that has entered its conversation ends only on a
\* StopSignal or on a receive timeout, never on a fatal conversation
\* exception.
C14_InputNeverFatal ==
    \A w \in DOMAIN workers :
        workers[w].thread = "dead" /\ workers[w].loc = "set" /\ workers[w].exit # "error"
            => workers[w].exit \in {"request", "timeout"}

\* C15: on every exit path of the conversation (stop request, receive
\* timeout, fatal conversation exception) the storage session of the worker
\* is closed when its thread has ended.
C15_SessionClosedOnExit ==
    \A w \in DOMAIN workers :
        workers[w].thread = "dead" /\ workers[w].exit \in {"request", "timeout", "fatal"}
            => workers[w].session = "closed"

ExpiredNotice == Api("send_message", "conversation_expired")

\* C16: the session-expired notice is sent if and only if the worker stops
\* on a receive timeout.  The step that ends a worker on a timeout makes
\* that one call and no other, the step that ends it on stop("request")
\* makes no call, no other step sends the notice, and a worker that has
\* ended takes no further step (only its queue can still be put to).
C16_ExpiredNoticeIffTimeout ==
    [][\A w \in DOMAIN workers :
          LET wr == workers[w]
              wr2 == workers'[w]
          IN /\ (\E k \in DOMAIN wr2.calls : wr2.calls[k] = ExpiredNotice)
                   => wr2.thread = "dead" /\ wr2.exit = "timeout"
             /\ wr2.thread = "dead" /\ wr2.exit = "timeout"
                   => wr2.calls = <<ExpiredNotice>>
             /\ wr2.thread = "dead" /\ wr2.exit = "request"
                   => wr2.calls = <<>>
             /\ wr.thread = "dead"
                   => wr2 = [wr EXCEPT !.queue = wr2.queue]]_vars

\* C16 witness: one worker has ended on a timeout with the notice, another
\* on a stop request without it.
C16_Witness ==
    \E w, v \in DOMAIN workers :
        /\ workers[w].exit = "timeout" /\ workers[w].calls = <<ExpiredNotice>>
        /\ workers[v].exit = "request" /\ workers[v].calls = <<>>

\* C17: the cursor never decreases; a poll that returns nothing leaves it
\* unchanged and a poll that returns a batch starts the loop at the update
\* the cursor names; when main() has finished with update n, the update it
\* handles next is n + 1, and if n was the last of its batch the cursor is
\* n + 1: every fetched update is handled once, in the order of the ids.
C17_CursorAdvances ==
    [][/\ Offset' >= Offset
       /\ corePc = "poll" /\ corePc' # "crashed" =>
              next_update' = next_update /\ UpdateId' = UpdateId
       /\ /\ corePc \in {"loop", "join"} /\ corePc' \in {"loop", "poll"}
          /\ <<corePc, updates, next_update>>' # <<corePc, updates, next_update>>
          => /\ UpdateId' = UpdateId + 1
             /\ corePc' = "poll" => next_update' = UpdateId + 1 /\ updates' = 0
             /\ corePc' = "loop" => next_update' = next_update
       /\ corePc = "loop" /\ corePc' \in {"join", "crashed"} => UpdateId' = UpdateId]_vars

\* C17 witness: main() is inside a second batch, past its first update.
C17_Witness ==
    /\ corePc = "loop"
    /\ next_update = 1
    /\ updates = 1

SeqRange(q) == {q[k] : k \in DOMAIN q}

\* C18: for every page >= 0 and every item count, the navigation row has a
\* Next button if and only if (page + 1) * 15 < len(items), a Previous
\* button if and only if page > 0, and always a Cancel button.
C18_NavigationRow ==
    pure.fn = "_create_navigation_buttons" /\ pure.done =>
        /\ "next" \in SeqRange(pure.out) <=> (pure.page + 1) * 15 < pure.data_list_length
        /\ "prev" \in SeqRange(pure.out) <=> pure.page > 0
        /\ "cmd_cancel" \in SeqRange(pure.out)

\* C18 witness: page 1 of exactly 30 items: Previous and Cancel, no Next.
C18_Witness ==
    /\ pure.fn = "_create_navigation_buttons" /\ pure.done
    /\ pure.page = 1 /\ pure.data_list_length = 30
    /\ pure.out = <<"prev", "cmd_cancel">>

\* the least index of a set of indexes, 0 if it is empty
FirstIndex(S) == IF S = {} THEN 0 ELSE CHOOSE j \in S : \A m \in S : j <= m

\* the first format of the list with the key, 0 if none
FirstWithKey(formats, key) ==
    FirstIndex({j \in DOMAIN formats : format_key(formats[j]) = key})

\* the first format of the list with the key that passes the filter, 0 if none
FirstEligibleWithKey(formats, key) ==
    FirstIndex({j \in DOMAIN formats :
                   Eligible(formats[j]) /\ format_key(formats[j]) = key})

\* the buttons have pairwise distinct keys
DistinctKeys(buttons) ==
    \A a, b \in DOMAIN buttons : buttons[a].text = buttons[b].text => a = b

\* C19 as stated: the buttons have pairwise distinct keys, and the index of
\* every button selects the url of the first format of the list that has
\* the button's key.
C19_FirstOfKey ==
    pure.fn = "_create_format_buttons" /\ pure.done =>
        LET buttons == pure.out.format_buttons
            urls == pure.out.format_urls
        IN /\ DistinctKeys(buttons)
           /\ \A b \in DOMAIN buttons :
                 /\ buttons[b].index + 1 \in DOMAIN urls
                 /\ urls[buttons[b].index + 1]
                       = pure.formats[FirstWithKey(pure.formats, buttons[b].text)].url

\* C19 amended: only the formats that pass the filter of line 438 (bitrate
\* above 64, no .m3u8 url) count.  The buttons have pairwise distinct keys,
\* every key of such a format has a button, and the index of a button
\* selects the url of the first such format with the button's key.
C19_FirstEligibleOfKey ==
    pure.fn = "_create_format_buttons" /\ pure.done =>
        LET buttons == pure.out.format_buttons
            urls == pure.out.format_urls
        IN /\ DistinctKeys(buttons)
           /\ Len(urls) = Len(buttons)
           /\ \A j \in DOMAIN pure.formats :
                 Eligible(pure.formats[j]) =>
                    \E b \in DOMAIN buttons : buttons[b].text = format_key(pure.formats[j])
           /\ \A b \in DOMAIN buttons :
                 LET first == FirstEligibleWithKey(pure.formats, buttons[b].text)
                 IN /\ buttons[b].index + 1 \in DOMAIN urls
                    /\ first # 0
                    /\ urls[buttons[b].index + 1] = pure.formats[first].url

\* C19 witness: two formats of one key and different urls after a format
\* of another key: two buttons, the second selects the url of the second
\* format.
C19_Witness ==
    /\ pure.fn = "_create_format_buttons" /\ pure.done
    /\ Len(pure.formats) = 3
    /\ Eligible(pure.formats[2]) /\ Eligible(pure.formats[3])
    /\ format_key(pure.formats[2]) = format_key(pure.formats[3])
    /\ format_key(pure.formats[1]) # format_key(pure.formats[2])
    /\ Len(pure.out.format_buttons) = 2
    /\ pure.out.format_urls[pure.out.format_buttons[2].index + 1] = pure.formats[2].url

\* C20: a worker started for a chat without User record while no Admin row
\* exists (it becomes the owner) sends no new_user_in message to any admin.
C20_FirstOwnerNotNotified ==
    \A w \in DOMAIN workers :
        workers[w].will_be_owner =>
            \A k \in DOMAIN workers[w].calls : workers[w].calls[k].what # "new_user_in"

\* the progress edits among the calls of a step, in the order they were made
ProgressEdits(calls) ==
    LET IsProgress(c) == c.op = "edit_message_text" /\ c.what = "get_information"
    IN SelectSeq(calls, IsProgress)

\* C21: when a submitted link resolves to a playlist and the item list is
\* shown, the step has made exactly n progress edits, the k-th showing k
\* (of n), for n the number of entries, and the list is at page 0 with n
\* items.
C21_ProgressCountsUp ==
    [][\A w \in DOMAIN workers :
          TakesServiceLink(w) /\ workers'[w].pc = "many" =>
              LET n == Len(workers'[w].items)
              IN /\ workers'[w].page = 0
                 /\ ProgressEdits(workers'[w].calls) =
                       [k \in 1..n |-> ApiK("edit_message_text", "get_information", k)]]_vars

\* C22: an exception raised while the worker shows an item or an item list
\* (no resolver or download call is made there) is never reported as
\* "invalid link" with the worker going on: no step taken from these states
\* sends the invalid-link notice and leaves the thread alive.
C22_ExceptionsReachRun ==
    [][\A w \in DOMAIN workers :
          /\ workers[w].thread = "alive"
          /\ workers[w].pc \in {"one", "many"}
          /\ workers[w].queue # <<>>
          /\ workers'[w].queue = Tail(workers[w].queue)
          => ~(/\ workers'[w].thread = "alive"
               /\ \E k \in DOMAIN workers'[w].calls :
                     workers'[w].calls[k] = InvalidLinkNotice)]_vars

\* the fixed replies main() gives to stale-state events
StaleReplies ==
    {Api("send_message", "error_nonprivate_chat"),
     Api("send_message", "error_no_worker_for_chat"),
     Api("send_message", "error_worker_not_ready"),
     Api("answer_pre_checkout_query", "error_invoice_expired")}

\* C23: main() handles a stale-state event (no worker for the chat, worker
\* not ready, pre-checkout query without worker or with another payload,
\* message of a non-private chat) by one BotAPI reply and nothing else: the
\* step that handles it leaves every worker and the registry unchanged,
\* makes exactly that one call, and main() goes on (it is not ended by the
\* event).
C23_StaleEventOnlyReplied ==
    [][/\ /\ corePc = "loop"
          /\ <<corePc, updates, next_update>>' # <<corePc, updates, next_update>>
          /\ coreCalls' # <<>> /\ coreCalls'[1] \in StaleReplies
          =>  /\ Len(coreCalls') = 1
              /\ workers' = workers
              /\ chat_workers' = chat_workers
       /\ corePc = "loop" => corePc' # "crashed"]_vars

\* C24: whenever the item list is rendered (the worker waits in __show_many),
\* page_index >= 0 and page_index * 15 < len(items): 'next' and 'prev' never
\* move the page outside the list.
C24_PageInBounds ==
    \A w \in DOMAIN workers :
        workers[w].thread = "alive" /\ workers[w].pc = "many" =>
            /\ workers[w].page >= 0
            /\ workers[w].page * ITEMS_PER_PAGE < Len(workers[w].items)

\* the format's own url is behind one of the buttons
YieldsButton(out, format_info) ==
    \E k \in DOMAIN out.format_urls : out.format_urls[k] = format_info.url

\* a button carries the format's (bitrate, container) key
HasKeyButton(out, format_info) ==
    \E b \in DOMAIN out.format_buttons :
        out.format_buttons[b].text = format_key(format_info)

\* C25 as stated: a format whose bitrate is below 64 kbps or whose url is a
\* streaming-manifest url yields no button, and every other format (64 kbps
\* or above, no manifest url) is represented by a button for its key.
C25_ExcludedBelow64 ==
    pure.fn = "_create_format_buttons" /\ pure.done =>
        \A j \in DOMAIN pure.formats :
            LET f == pure.formats[j]
            IN IF f.abr < 64 \/ f.url.m3u8
               THEN ~YieldsButton(pure.out, f)
               ELSE HasKeyButton(pure.out, f)

\* C25 amended: the threshold itself is excluded.  A format whose bitrate is
\* 64 kbps or below or whose url is a streaming-manifest url yields no
\* button, and every other format (above 64 kbps, no manifest url) is
\* represented by a button for its key.
C25_ExcludedUpTo64 ==
    pure.fn = "_create_format_buttons" /\ pure.done =>
        \A j \in DOMAIN pure.formats :
            LET f == pure.formats[j]
            IN IF f.abr <= 64 \/ f.url.m3u8
               THEN ~YieldsButton(pure.out, f)
               ELSE HasKeyButton(pure.out, f)

\* C25 witness: formats of 32, 64 and 128 kbps, none with a manifest url:
\* the one button is that of the 128 kbps format.
C25_Witness ==
    /\ pure.fn = "_create_format_buttons" /\ pure.done
    /\ Len(pure.formats) = 3
    /\ \A j \in 1..3 : ~pure.formats[j].url.m3u8
    /\ {pure.formats[j].abr : j \in 1..3} = {32, 64, 128}
    /\ Len(pure.out.format_buttons) = 1
    /\ \A j \in 1..3 : YieldsButton(pure.out, pure.formats[j]) <=> pure.formats[j].abr = 128

\* the positions of the thumbnails that carry resolution metadata
WithResolution(thumbnails) == {j \in DOMAIN thumbnails : thumbnails[j].resolution}

\* C26: the thumbnail chosen is a greatest-width one among those carrying
\* resolution metadata, and it is chosen (a thumbnail button is offered) only
\* if it passes the external validation itself; without a thumbnail with
\* resolution metadata nothing is chosen.
C26_BestThumbnailValidated ==
    pure.fn = "_get_best_thumbnail" /\ pure.done =>
        LET R == WithResolution(pure.thumbnails)
        IN /\ R = {} => pure.out = 0
           /\ pure.out # 0 =>
                 /\ pure.out \in R
                 /\ \A j \in R : pure.thumbnails[j].width <= pure.thumbnails[pure.out].width
                 /\ check_thumbnail(pure.thumbnails[pure.out].url)

\* the worker takes a callback of an offered format of an item that has a
\* best thumbnail: _send_audio_file runs
TakesFormat(w) ==
    /\ workers[w].thread = "alive"
    /\ Sends(workers[w])
    /\ workers'[w].queue = Tail(workers[w].queue)

SendAudio == Api("send_audio", "format")

\* C27: when the fetch or the send of the audio fails, the failure is caught
\* where it happens: the worker thread lives on, no error is reported to the
\* user, and the worker opens the main menu (a new __user_menu) and waits
\* there.
C27_SendFailureCaught ==
    [][\A w \in DOMAIN workers :
          TakesFormat(w) /\ SendAudio \notin SeqRange(workers'[w].calls) =>
              /\ workers'[w].thread = "alive"
              /\ workers'[w].pc = "menu"
              /\ workers'[w].stack = Append(workers[w].stack, Frame(0, "wait"))
              /\ workers'[w].calls =
                    <<Api("answer_callback_query", ""), Api("delete_message", "item"),
                      Api("log.error", "Failed to send audio"),
                      Api("send_message", "conversation_open_user_menu")>>]_vars

\* C27 witness: a worker is back in the main menu, in a new __user_menu,
\* after the callback of a format whose send failed and was logged.
C27_Witness ==
    \E w \in DOMAIN workers :
        /\ workers[w].thread = "alive" /\ workers[w].pc = "menu"
        /\ workers[w].data.content = "download_format:0"
        /\ Api("log.error", "Failed to send audio") \in SeqRange(workers[w].calls)
        /\ SendAudio \notin SeqRange(workers[w].calls)
        /\ Len(workers[w].stack) = 2

\* C28: selecting an offered format button of the item shown leads to exactly
\* one attempt to send the audio of that format (send_audio, or the logged
\* failure of the attempt) and then to the main menu, whether or not the item
\* has a usable thumbnail.
C28_FormatAlwaysSent ==
    [][\A w \in DOMAIN workers :
          /\ workers[w].thread = "alive"
          /\ workers[w].pc = "one"
          /\ workers[w].queue # <<>>
          /\ Head(workers[w].queue).kind = "callback_query"
          /\ FormatIndex(Head(workers[w].queue).content) \in 0..(workers[w].item.nfmt - 1)
          /\ workers'[w].queue = Tail(workers[w].queue)
          => LET IsAttempt(c) == c \in {SendAudio, Api("log.error", "Failed to send audio")}
             IN /\ Len(SelectSeq(workers'[w].calls, IsAttempt)) = 1
                /\ workers'[w].pc = "menu"]_vars

\* C29: when the link resolves to a redirect ("url" type), the target is
\* resolved once and decides: a playlist leads to the item list of its
\* entries, anything else (a single item, or a target that is a redirect
\* again, which is not treated as a playlist) leads to the item detail.
C29_RedirectOneHop ==
    [][\A w \in DOMAIN workers :
          TakesServiceLink(w) =>
              \A r \in ResolverOutcomes :
                  /\ r.type = "url" /\ r.hop # "raise" /\ r.bad = 0
                  /\ workers'[w] = Receive(workers[w], r)
                  => IF r.hop = "playlist"
                     THEN /\ workers'[w].pc = "many"
                          /\ Len(workers'[w].items) = Len(r.entries)
                     ELSE workers'[w].pc = "one"]_vars

\* C30: when the resolver raises for a submitted link, the user gets the
\* invalid-link notice and the worker lives on in the main menu; the service
\* selection that follows is handled as at a menu just opened: the menu
\* message it deletes was not deleted before, the link prompt is sent and
\* the worker waits for a link.
C30_ResolverFailureContinues ==
    [][\A w \in DOMAIN workers :
          /\ TakesServiceLink(w) /\ workers'[w] = Receive(workers[w], NoOutcome)
             => /\ workers'[w].thread = "alive"
                /\ workers'[w].pc = "menu"
                /\ InvalidLinkNotice \in SeqRange(workers'[w].calls)
          /\ /\ workers[w].thread = "alive" /\ workers[w].pc = "menu"
             /\ IsServiceLink(workers[w].data.content)
             /\ InvalidLinkNotice \in SeqRange(workers[w].calls)
             /\ workers[w].queue # <<>>
             /\ Head(workers[w].queue) = [kind |-> "callback_query", content |-> "cmd_soundcloud"]
             /\ workers'[w].queue = Tail(workers[w].queue)
             => /\ workers'[w].thread = "alive"
                /\ workers'[w].pc = "link"
                /\ workers'[w].calls =
                      <<Api("answer_callback_query", ""), Api("delete_message", "user_menu"),
                        Api("send_message", "msg_link")>>
                /\ Top(workers'[w]).del = 1]_vars

\* C31: whatever the interleaving of the workers started for brand-new chats
\* while there is no Admin row, at most one user is auto-promoted: the Admin
\* table never holds more than one owner row.
C31_OneOwner ==
    Cardinality({a \in db.admins : a.is_owner}) <= 1

\* the deletions of the link prompt among the calls of a step
PromptDeletions(calls) ==
    LET IsDeletion(c) == c = Api("delete_message", "msg_link")
    IN Len(SelectSeq(calls, IsDeletion))

\* C32: during one wait for a link (from the prompt to a valid link, a
\* cancel or the last failed attempt) the prompt message is deleted at most
\* once: the deletions made before a step of the wait and those the step
\* makes are together at most one.
C32_PromptDeletedOnce ==
    [][\A w \in DOMAIN workers :
          /\ workers[w].thread = "alive"
          /\ workers[w].pc = "link"
          /\ workers[w].queue # <<>>
          /\ workers'[w].queue = Tail(workers[w].queue)
          => workers[w].msg_link + PromptDeletions(workers'[w].calls) <= 1]_vars

\* C33: whenever a worker waits at the main menu for a service selection,
\* the menu message of the __user_menu it waits in (the one sent last) has
\* not been deleted, and no menu message is deleted twice: the count of the
\* deletions of the menu message of a __user_menu is 0 while it waits and
\* never above 1.
C33_MenuMessageLive ==
    \A w \in DOMAIN workers :
        workers[w].thread = "alive" =>
            /\ workers[w].pc = "menu" => Top(workers[w]).del = 0
            /\ \A k \in DOMAIN workers[w].stack : workers[w].stack[k].del <= 1

====
